---- MODULE Spec2Model ----
(***************************************************************************)
(* Force relaxation of point particles on a 1-D line segment.              *)
(*                                                                         *)
(* Three programs of the repository are modelled side by side:             *)
(*   - the Particle based engine (particles_1d_line_segment_n_02.py.py and *)
(*     particles_1d_line_segment_04_02.py.py, which share the Particle     *)
(*     class and the loop of update_graphics and differ in the number of   *)
(*     free particles only);                                               *)
(*   - the scalar single-particle script particles_1d_line_segment_03_02.py*)
(*   - its older variant particles_1d_line_segment_03_02.py.py, which      *)
(*     encodes the mode as an exponent on sign(dx).                        *)
(*                                                                         *)
(* Numbers are exact rationals <<numerator, denominator>> in lowest terms  *)
(* with a positive denominator; floating-point rounding is not modelled.   *)
(* A value whose numerator or denominator leaves the representable range   *)
(* becomes NaR, and a tick that would produce NaR is not taken.            *)
(***************************************************************************)
EXTENDS Integers, Sequences, FiniteSets, TLC

\* ------------------------------------------------------------------ bounds
MaxFree == 2          \* largest number of free particles
MaxTicks == 3         \* frames played by the animation driver
MaxPower == 2         \* largest FORCE_DECAY_POWER
MaxMagnitude == 30000 \* largest numerator / denominator of a stored value

\* ------------------------------------------------------- exact arithmetic
Abs(n) == IF n < 0 THEN -n ELSE n

RECURSIVE GCD(_, _)
GCD(a, b) == IF b = 0 THEN a ELSE GCD(b, a % b)

NaR == <<0, 0>>

IsNum(r) == r[2] # 0

Rat(n, d) ==
    IF d = 0 THEN NaR
    ELSE LET g == GCD(Abs(n), Abs(d))
             s == IF d < 0 THEN -1 ELSE 1
             nn == (s * n) \div g
             dd == (s * d) \div g
         IN  IF Abs(nn) > MaxMagnitude \/ dd > MaxMagnitude THEN NaR
             ELSE <<nn, dd>>

FromInt(n) == <<n, 1>>

Zero == <<0, 1>>

One == <<1, 1>>

RAdd(a, b) ==
    IF IsNum(a) /\ IsNum(b) THEN Rat(a[1] * b[2] + b[1] * a[2], a[2] * b[2])
    ELSE NaR

RSub(a, b) ==
    IF IsNum(a) /\ IsNum(b) THEN Rat(a[1] * b[2] - b[1] * a[2], a[2] * b[2])
    ELSE NaR

RMul(a, b) ==
    IF IsNum(a) /\ IsNum(b) THEN Rat(a[1] * b[1], a[2] * b[2]) ELSE NaR

RDiv(a, b) ==
    IF IsNum(a) /\ IsNum(b) THEN Rat(a[1] * b[2], a[2] * b[1]) ELSE NaR

RECURSIVE RPow(_, _)
RPow(a, p) == IF p = 0 THEN One ELSE RMul(a, RPow(a, p - 1))

np_sign(x) ==
    IF ~IsNum(x) THEN NaR
    ELSE IF x[1] > 0 THEN One ELSE IF x[1] < 0 THEN FromInt(-1) ELSE Zero

np_abs(x) == IF IsNum(x) THEN <<Abs(x[1]), x[2]>> ELSE NaR

\* ------------------------------------------------------------ configuration
Lefts == {0, 1}

Rights == {5, 6}

Gains == {<<3, 100>>, <<1, 10>>, <<1, 1>>}

VARIABLES
    running,                  \* the scripts this run executes
    PARTICLE_LEFT_POSITION,   \* integer, fixed at construction
    PARTICLE_RIGHT_POSITION,  \* integer, fixed at construction
    direction,                \* 1 repulsive, -1 attractive
    FORCE_DECAY_POWER,
    FORCE_POSITION_GAIN,
    particle_L,               \* [position, total_force]
    particle_R,               \* [position, total_force]
    particles,                \* sequence of [position, total_force]
    poss,                     \* positions returned by the last tick
    ticks,                    \* frames played by the Particle engine
    start,                    \* history: initial positions of the free particles
    pre,                      \* history: free positions when the last tick began
    calls,                    \* history: compute_force calls of the last tick
    particle_free_position,   \* 03_02.py
    force_left_particle,      \* 03_02.py, local of the last tick
    force_right_particle,     \* 03_02.py, local of the last tick
    ticks03,                  \* frames played by 03_02.py
    pre03,                    \* history: position when the last 03_02.py tick began
    x_particle_free_position, \* 03_02.py.py
    x_force_left_particle,    \* 03_02.py.py, local of the last tick
    x_force_right_particle,   \* 03_02.py.py, local of the last tick
    x_ticks,                  \* frames played by 03_02.py.py
    x_pre                     \* history: position when the last 03_02.py.py tick began

config == <<running, PARTICLE_LEFT_POSITION, PARTICLE_RIGHT_POSITION, direction,
            FORCE_DECAY_POWER, FORCE_POSITION_GAIN, start>>

engine == <<particle_L, particle_R, particles, poss, ticks, pre, calls>>

script03 == <<particle_free_position, force_left_particle,
              force_right_particle, ticks03, pre03>>

script03x == <<x_particle_free_position, x_force_left_particle,
               x_force_right_particle, x_ticks, x_pre>>

vars == <<config, engine, script03, script03x>>

\* 03_02.py.py: 1 repulsive, 0 attractive
IS_REPULSIVE == IF direction = 1 THEN 1 ELSE 0

\* ----------------------------------------------------------------- Particle
Particle(position) == [position |-> position, total_force |-> Zero]

\* as pair_force, but the sign of dx is lost: the force always pushes one way
pair_force_no_sign(self, mate_particle, dir, FORCE_DECAY) ==
    LET dx == RSub(self.position, mate_particle.position)
    IN  IF ~(dx = Zero)
        THEN RDiv(FromInt(dir), RPow(np_abs(dx), FORCE_DECAY))
        ELSE Zero

\* as pair_force, but a coincident mate pushes with a unit force
pair_force_push_at_singularity(self, mate_particle, dir, FORCE_DECAY) ==
    LET dx == RSub(self.position, mate_particle.position)
    IN  IF ~(dx = Zero)
        THEN RDiv(RMul(FromInt(dir), np_sign(dx)), RPow(np_abs(dx), FORCE_DECAY))
        ELSE FromInt(dir)

\* Particle.compute_force, first part: dx, the branch on the singularity, force
pair_force(self, mate_particle, dir, FORCE_DECAY) ==
    LET dx == RSub(self.position, mate_particle.position)
    IN  IF ~(dx = Zero)
        THEN RDiv(RMul(FromInt(dir), np_sign(dx)), RPow(np_abs(dx), FORCE_DECAY))
        ELSE Zero

\* as add_force, but "=" in place of "+="
add_force_overwrite(self, force) == [self EXCEPT !.total_force = force]

\* Particle.compute_force, last statement: self.total_force += force
add_force(self, force) == [self EXCEPT !.total_force = RAdd(@, force)]

\* as move, but the gain is forgotten
move_without_gain(self, gain) ==
    [self EXCEPT !.position = RAdd(self.position, self.total_force)]

move(self, gain) ==
    [self EXCEPT !.position = RAdd(self.position, RMul(gain, self.total_force))]

\* ---------------------------------------------- update_graphics (engine)
\* The loop state: the particle list, the list poss, and the record of the
\* compute_force calls made so far in this tick.
\* as reset_force, but the force of the previous tick is kept
reset_force_skip(particle) == particle

reset_force(particle) == [particle EXCEPT !.total_force = Zero]

compute_force(st, i, mate_id, mate_particle, dir, decay) ==
    LET force == pair_force(st.ps[i], mate_particle, dir, decay)
    IN  [ps |-> [st.ps EXCEPT ![i] = add_force(@, force)],
         poss |-> st.poss,
         log |-> Append(st.log,
                    [self |-> i, mate |-> mate_id,
                     self_position |-> st.ps[i].position,
                     mate_position |-> mate_particle.position,
                     force |-> force])]

\* "if not mate_particle == particle": object identity, i.e. the list index
is_mate(j, i) == ~(j = i)

RECURSIVE mates_loop(_, _, _, _, _)
mates_loop(st, i, j, dir, decay) ==
    IF j > Len(st.ps) THEN st
    ELSE mates_loop(IF is_mate(j, i)
                    THEN compute_force(st, i, <<"free", j>>, st.ps[j], dir, decay)
                    ELSE st,
                    i, j + 1, dir, decay)

particle_step(st, i, pL, pR, dir, decay, gain) ==
    LET s0 == [st EXCEPT !.ps[i] = reset_force(@)]
        s1 == compute_force(s0, i, <<"L", 0>>, pL, dir, decay)
        s2 == compute_force(s1, i, <<"R", 0>>, pR, dir, decay)
        s3 == mates_loop(s2, i, 1, dir, decay)
        s4 == [s3 EXCEPT !.ps[i] = move(@, gain)]
    IN  [s4 EXCEPT !.poss = Append(@, s4.ps[i].position)]

RECURSIVE particles_loop(_, _, _, _, _, _, _)
particles_loop(st, i, pL, pR, dir, decay, gain) ==
    IF i > Len(st.ps) THEN st
    ELSE particles_loop(particle_step(st, i, pL, pR, dir, decay, gain),
                        i + 1, pL, pR, dir, decay, gain)

AllNum(s) == \A k \in 1..Len(s) : IsNum(s[k])

Positions(ps) == [k \in 1..Len(ps) |-> ps[k].position]

Forces(ps) == [k \in 1..Len(ps) |-> ps[k].total_force]

\* the loop over the free particles and the list poss
free_particles_tick ==
    /\ "n_02" \in running
    /\ ticks < MaxTicks
    /\ \E st \in {particles_loop([ps |-> particles, poss |-> <<>>, log |-> <<>>],
                                 1, particle_L, particle_R, direction,
                                 FORCE_DECAY_POWER, FORCE_POSITION_GAIN)} :
           /\ AllNum(Positions(st.ps))
           /\ AllNum(Forces(st.ps))
           /\ AllNum([k \in 1..Len(st.log) |-> st.log[k].force])
           /\ particles' = st.ps
           /\ poss' = st.poss
           /\ calls' = st.log
    /\ pre' = Positions(particles)
    /\ ticks' = ticks + 1
    /\ UNCHANGED <<config, script03, script03x>>

\* as update_graphics, but the left boundary particle is treated as a free one
update_graphics_boundary_in_loop ==
    /\ free_particles_tick
    /\ particle_L' = move(add_force(reset_force(particle_L),
                                    pair_force(particle_L, particle_R, direction,
                                               FORCE_DECAY_POWER)),
                          FORCE_POSITION_GAIN)
    /\ UNCHANGED particle_R

update_graphics ==
    /\ free_particles_tick
    /\ UNCHANGED <<particle_L, particle_R>>

\* ---------------------------------------- update_graphics of 03_02.py
force_03_02(dx, dir, decay) ==
    IF ~(dx = Zero)
    THEN RDiv(RMul(FromInt(dir), np_sign(dx)), RPow(np_abs(dx), decay))
    ELSE Zero

update_graphics_03_02 ==
    /\ "03_02" \in running
    /\ ticks03 < MaxTicks
    /\ LET fl == force_03_02(RSub(particle_free_position,
                                  FromInt(PARTICLE_LEFT_POSITION)),
                             direction, FORCE_DECAY_POWER)
           fr == force_03_02(RSub(particle_free_position,
                                  FromInt(PARTICLE_RIGHT_POSITION)),
                             direction, FORCE_DECAY_POWER)
           np == RAdd(particle_free_position,
                      RMul(FORCE_POSITION_GAIN, RAdd(fl, fr)))
       IN  /\ IsNum(fl) /\ IsNum(fr) /\ IsNum(np)
           /\ force_left_particle' = fl
           /\ force_right_particle' = fr
           /\ particle_free_position' = np
    /\ pre03' = particle_free_position
    /\ ticks03' = ticks03 + 1
    /\ UNCHANGED <<config, engine, script03x>>

\* ------------------------------------- update_graphics of 03_02.py.py
force_03_02_py(dx, is_repulsive, decay) ==
    IF ~(dx = Zero)
    THEN RDiv(RPow(np_sign(dx), is_repulsive), RPow(np_abs(dx), decay))
    ELSE Zero

update_graphics_03_02_py ==
    /\ "03_02_py" \in running
    /\ x_ticks < MaxTicks
    /\ LET fl == force_03_02_py(RSub(x_particle_free_position,
                                     FromInt(PARTICLE_LEFT_POSITION)),
                                IS_REPULSIVE, FORCE_DECAY_POWER)
           fr == force_03_02_py(RSub(x_particle_free_position,
                                     FromInt(PARTICLE_RIGHT_POSITION)),
                                IS_REPULSIVE, FORCE_DECAY_POWER)
           np == RAdd(x_particle_free_position,
                      RMul(FORCE_POSITION_GAIN, RAdd(fl, fr)))
       IN  /\ IsNum(fl) /\ IsNum(fr) /\ IsNum(np)
           /\ x_force_left_particle' = fl
           /\ x_force_right_particle' = fr
           /\ x_particle_free_position' = np
    /\ x_pre' = x_particle_free_position
    /\ x_ticks' = x_ticks + 1
    /\ UNCHANGED <<config, engine, script03>>

\* --------------------------------------------------------------------- Init
StartSeqs(L, R) ==
    UNION {[1..n -> {FromInt(k) : k \in L..R}] : n \in 1..MaxFree}

Scripts == {"n_02", "03_02", "03_02_py"}

Configured ==
    /\ PARTICLE_LEFT_POSITION \in Lefts
    /\ PARTICLE_RIGHT_POSITION \in Rights
    /\ direction \in {1, -1}
    /\ FORCE_DECAY_POWER \in 0..MaxPower
    /\ FORCE_POSITION_GAIN \in Gains
    /\ start \in StartSeqs(PARTICLE_LEFT_POSITION, PARTICLE_RIGHT_POSITION)
    /\ particle_L = Particle(FromInt(PARTICLE_LEFT_POSITION))
    /\ particle_R = Particle(FromInt(PARTICLE_RIGHT_POSITION))
    /\ particles = [k \in 1..Len(start) |-> Particle(start[k])]
    /\ poss = <<>>
    /\ ticks = 0
    /\ pre = start
    /\ calls = <<>>
    /\ particle_free_position = start[1]
    /\ force_left_particle = Zero
    /\ force_right_particle = Zero
    /\ ticks03 = 0
    /\ pre03 = start[1]
    /\ x_particle_free_position = start[1]
    /\ x_force_left_particle = Zero
    /\ x_force_right_particle = Zero
    /\ x_ticks = 0
    /\ x_pre = start[1]

\* one script per run
Init == running \in {{s} : s \in Scripts} /\ Configured

Next ==
    \/ update_graphics
    \/ update_graphics_03_02
    \/ update_graphics_03_02_py

Spec == Init /\ [][Next]_vars

\* the Particle engine with one free particle next to the scalar script
InitPair == running = {"n_02", "03_02"} /\ Configured /\ Len(start) = 1

NextPair ==
    \/ update_graphics
    \/ update_graphics_03_02

SpecPair == InitPair /\ [][NextPair]_vars

\* =============================================================== properties
RECURSIVE SumSeq(_)
SumSeq(s) == IF s = <<>> THEN Zero ELSE RAdd(SumSeq(SubSeq(s, 1, Len(s) - 1)), s[Len(s)])

RLess(a, b) == a[1] * b[2] < b[1] * a[2]

\* the force law as section 4.1 of the specification writes it
Law(dx, dir, decay) ==
    IF dx = Zero THEN Zero
    ELSE RDiv(RMul(FromInt(dir), np_sign(dx)), RPow(np_abs(dx), decay))

LeftPos == FromInt(PARTICLE_LEFT_POSITION)

RightPos == FromInt(PARTICLE_RIGHT_POSITION)

NFree == Len(particles)

EngineTicked == "n_02" \in running /\ ticks > 0

\* the calls of the last tick whose receiver is particle p
CallsOf(p) == SelectSeq(calls, LAMBDA c : c.self = p)

ForcesOf(cs) == [k \in 1..Len(cs) |-> cs[k].force]

\* force on particle i when every mate is taken at its pre-tick position
SnapshotForce(i) ==
    SumSeq(<<Law(RSub(pre[i], LeftPos), direction, FORCE_DECAY_POWER),
             Law(RSub(pre[i], RightPos), direction, FORCE_DECAY_POWER)>>
           \o [j \in 1..Len(pre) |->
                 IF j = i THEN Zero
                 ELSE Law(RSub(pre[i], pre[j]), direction, FORCE_DECAY_POWER)])

\* the multiset of positions is invariant under x -> L + R - x
Mirror(s) ==
    \A k \in 1..Len(s) :
        Cardinality({j \in 1..Len(s) : s[j] = s[k]})
      = Cardinality({j \in 1..Len(s) :
                        s[j] = RSub(FromInt(PARTICLE_LEFT_POSITION
                                            + PARTICLE_RIGHT_POSITION), s[k])})

\* C1: after a tick of the Particle engine the accumulated force of every free
\* particle is the sum of the pairwise forces at the positions all particles
\* held when the tick began (synchronous update).
C1_SynchronousUpdate ==
    EngineTicked =>
        \A i \in 1..NFree :
            IsNum(SnapshotForce(i)) => particles[i].total_force = SnapshotForce(i)

\* C2: a pair of equal positions contributes exactly 0 to the accumulated
\* force, in each of the three programs, in both modes and for every decay
\* power; the tick completes and the position moves by the gain times the
\* sum of the remaining contributions.
C2_CoincidentContributesZero ==
    /\ \A k \in 1..Len(calls) :
           calls[k].self_position = calls[k].mate_position => calls[k].force = Zero
    /\ EngineTicked =>
           \A p \in 1..NFree :
               particles[p].position =
                   RAdd(pre[p],
                        RMul(FORCE_POSITION_GAIN,
                             SumSeq(ForcesOf(SelectSeq(CallsOf(p),
                                 LAMBDA c : c.self_position # c.mate_position)))))
    /\ (ticks03 > 0 /\ pre03 = LeftPos) =>
           /\ force_left_particle = Zero
           /\ particle_free_position =
                  RAdd(pre03, RMul(FORCE_POSITION_GAIN, force_right_particle))
    /\ (ticks03 > 0 /\ pre03 = RightPos) =>
           /\ force_right_particle = Zero
           /\ particle_free_position =
                  RAdd(pre03, RMul(FORCE_POSITION_GAIN, force_left_particle))
    /\ (x_ticks > 0 /\ x_pre = LeftPos) =>
           /\ x_force_left_particle = Zero
           /\ x_particle_free_position =
                  RAdd(x_pre, RMul(FORCE_POSITION_GAIN, x_force_right_particle))
    /\ (x_ticks > 0 /\ x_pre = RightPos) =>
           /\ x_force_right_particle = Zero
           /\ x_particle_free_position =
                  RAdd(x_pre, RMul(FORCE_POSITION_GAIN, x_force_left_particle))

\* a tick of the engine in which two free particles coincided
C2_Witness ==
    /\ EngineTicked
    /\ \E k \in 1..Len(calls) :
           /\ calls[k].mate[1] = "free"
           /\ calls[k].self_position = calls[k].mate_position

\* C3: for positions a # b with dx = a - b, the contribution on a is
\* direction * sign(dx) / |dx|^decay_power, direction = +1 repulsive and -1
\* attractive, in every variant of the force law.
C3_ForceLawAllVariants ==
    /\ \A k \in 1..Len(calls) :
           calls[k].self_position # calls[k].mate_position =>
               calls[k].force = Law(RSub(calls[k].self_position,
                                         calls[k].mate_position),
                                    direction, FORCE_DECAY_POWER)
    /\ (ticks03 > 0 /\ pre03 # LeftPos) =>
           force_left_particle =
               Law(RSub(pre03, LeftPos), direction, FORCE_DECAY_POWER)
    /\ (ticks03 > 0 /\ pre03 # RightPos) =>
           force_right_particle =
               Law(RSub(pre03, RightPos), direction, FORCE_DECAY_POWER)
    /\ (x_ticks > 0 /\ x_pre # LeftPos) =>
           x_force_left_particle =
               Law(RSub(x_pre, LeftPos), direction, FORCE_DECAY_POWER)
    /\ (x_ticks > 0 /\ x_pre # RightPos) =>
           x_force_right_particle =
               Law(RSub(x_pre, RightPos), direction, FORCE_DECAY_POWER)

\* C4: the two boundary particles keep their initial position, and their
\* accumulated force stays 0 and is never applied.
C4_BoundariesFixed ==
    /\ particle_L = Particle(LeftPos)
    /\ particle_R = Particle(RightPos)

\* two ticks of the engine after which a free particle has moved
C4_Witness ==
    /\ "n_02" \in running
    /\ ticks >= 2
    /\ \E i \in 1..NFree : particles[i].position # start[i]

\* C5: one free particle, repulsive mode, L < R: started at (L+R)/2 the
\* accumulated force of every tick is 0 and the position stays (L+R)/2, in the
\* Particle engine and in the scalar script.
C5_MidpointFixedPoint ==
    ( /\ direction = 1
      /\ PARTICLE_LEFT_POSITION < PARTICLE_RIGHT_POSITION
      /\ Len(start) = 1
      /\ RMul(FromInt(2), start[1])
             = FromInt(PARTICLE_LEFT_POSITION + PARTICLE_RIGHT_POSITION) )
    => /\ particles[1].position = start[1]
       /\ particles[1].total_force = Zero
       /\ particle_free_position = start[1]
       /\ RAdd(force_left_particle, force_right_particle) = Zero

\* the engine has ticked twice from the midpoint with a distance-dependent law
C5_Witness ==
    /\ "n_02" \in running
    /\ ticks >= 2
    /\ direction = 1
    /\ FORCE_DECAY_POWER >= 1
    /\ Len(start) = 1
    /\ RMul(FromInt(2), start[1])
           = FromInt(PARTICLE_LEFT_POSITION + PARTICLE_RIGHT_POSITION)
    /\ Len(calls) = 2
    /\ calls[1].force # Zero

\* C7: free particles placed mirror-symmetrically around (L+R)/2 are still
\* mirror-symmetric after every tick.
C7_MirrorInvariance ==
    ("n_02" \in running /\ Mirror(start)) => Mirror(Positions(particles))

\* C8: in a tick, every free particle p is reset and then receives exactly one
\* contribution from L, one from R and one from each other free particle, none
\* from itself; its accumulated force is the sum of exactly these.
C8_ForceAccumulation ==
    EngineTicked =>
        \A p \in 1..NFree :
            LET mine == CallsOf(p)
                Count(m) == Cardinality({k \in 1..Len(mine) : mine[k].mate = m})
            IN  /\ Len(mine) = NFree + 1
                /\ Count(<<"L", 0>>) = 1
                /\ Count(<<"R", 0>>) = 1
                /\ \A q \in 1..NFree :
                       Count(<<"free", q>>) = IF q = p THEN 0 ELSE 1
                /\ particles[p].total_force = SumSeq(ForcesOf(mine))

\* a second tick with two or more free particles and a nonzero force before it
C8_Witness ==
    /\ "n_02" \in running
    /\ ticks >= 2
    /\ NFree >= 2
    /\ \E p \in 1..NFree : particles[p].total_force # Zero

\* C9: a tick returns one position per free particle in the index order of the
\* particle list; the i-th value is the position of the i-th particle after
\* the tick, its pre-tick position plus gain times its accumulated force.
C9_ReturnedPositions ==
    EngineTicked =>
        /\ Len(poss) = NFree
        /\ \A i \in 1..NFree :
               /\ poss[i] = particles[i].position
               /\ poss[i] = RAdd(pre[i], RMul(FORCE_POSITION_GAIN,
                                              particles[i].total_force))

\* a tick in which two free particles have crossed
C9_Witness ==
    /\ EngineTicked
    /\ \E i, j \in 1..NFree :
           /\ RLess(pre[i], pre[j])
           /\ RLess(particles[j].position, particles[i].position)

\* C10: with one free particle and repulsive mode, the Particle engine and the
\* scalar script started alike hold the same position after equally many ticks.
C10_StepEquivalence ==
    (direction = 1 /\ NFree = 1 /\ ticks = ticks03) =>
        particles[1].position = particle_free_position

\* both have ticked twice from a start on the left boundary
C10_Witness ==
    /\ direction = 1
    /\ NFree = 1
    /\ start[1] = LeftPos
    /\ ticks = 2
    /\ ticks03 = 2
    /\ particles[1].position # start[1]

====
